---------------------------- MODULE Spec2Model ----------------------------
(***************************************************************************)
(* A model of eth-trie-utils: the packed nibble sequence `Nibbles`          *)
(* (src/src/partial_trie.rs), its bit-mask helpers (src/src/utils.rs) and   *)
(* the `PartialTrie` node type with its hand-written equality.              *)
(*                                                                         *)
(* A U256 is kept at its full width of 256 bits, as the sequence of its 64  *)
(* limbs of 4 bits, least significant first: limb i is Limb(x, i), a number *)
(* in 0..15.  Shifts, masks and the bitwise operators are computed limb by  *)
(* limb, so a bit shifted past bit 255 is lost exactly as it is in the      *)
(* code.                                                                   *)
(***************************************************************************)
EXTENDS Integers, Sequences, FiniteSets, TLC

(***************************************************************************)
(* U256 (ethereum_types), as used by Nibbles.packed.                       *)
(***************************************************************************)

\* The number of 4-bit limbs of a U256: the count of a full key.
KeyNibbles == 64

LimbIdx == 0 .. (KeyNibbles - 1)

Limb(x, i) == x[i + 1]

\* The U256 whose limbs the function f on 1..64 gives, as a sequence.
Limbs(f) == SubSeq(f, 1, KeyNibbles)

Pow2(n) == CASE n = 0 -> 1 [] n = 1 -> 2 [] n = 2 -> 4 [] n = 3 -> 8 [] OTHER -> 16

Bit(a, k) == (a \div Pow2(k)) % 2

\* a & b on two limbs, bit by bit
AndBits(a, b) ==
    Bit(a, 0) * Bit(b, 0) + 2 * Bit(a, 1) * Bit(b, 1)
      + 4 * Bit(a, 2) * Bit(b, 2) + 8 * Bit(a, 3) * Bit(b, 3)

\* The table of AndBits, computed once: AndTable[a + 1][b + 1] = a & b.
AndTable ==
    SubSeq([a \in 1 .. 16 |->
              SubSeq([b \in 1 .. 16 |-> AndBits(a - 1, b - 1)], 1, 16)], 1, 16)

AndNib(a, b) == AndTable[a + 1][b + 1]

U256Zero == Limbs([j \in 1 .. KeyNibbles |-> 0])

\* U256 & U256
BitAnd(x, y) == Limbs([j \in 1 .. KeyNibbles |-> AndNib(x[j], y[j])])

\* U256 | U256  (a | b = a + b - (a & b), limb by limb)
BitOr(x, y) == Limbs([j \in 1 .. KeyNibbles |-> x[j] + y[j] - AndNib(x[j], y[j])])

\* !U256
BitNot(x) == Limbs([j \in 1 .. KeyNibbles |-> 15 - x[j]])

\* U256 << shift: bits shifted past bit 255 are dropped; a shift of 256 or
\* more leaves zero.
Shl(x, shift) ==
    LET q == shift \div 4
        r == shift % 4
    IN  Limbs([j \in 1 .. KeyNibbles |->
            LET i == j - 1
            IN  IF i < q THEN 0
                ELSE ((Limb(x, i - q) * Pow2(r)) % 16)
                     + (IF r > 0 /\ i - q - 1 >= 0
                          THEN Limb(x, i - q - 1) \div Pow2(4 - r) ELSE 0)])

\* U256 >> shift
Shr(x, shift) ==
    LET q == shift \div 4
        r == shift % 4
    IN  Limbs([j \in 1 .. KeyNibbles |->
            LET i == j - 1
            IN  IF i + q > KeyNibbles - 1 THEN 0
                ELSE (Limb(x, i + q) \div Pow2(r))
                     + (IF r > 0 /\ i + q + 1 <= KeyNibbles - 1
                          THEN (Limb(x, i + q + 1) * Pow2(4 - r)) % 16 ELSE 0)])

\* U256::byte(index): byte 0 is the least significant.
Byte(x, index) == Limb(x, 2 * index) + 16 * Limb(x, 2 * index + 1)

\* U256::bits(): the position of the highest set bit, plus one.
BitLen(a) == CASE a = 0 -> 0 [] a = 1 -> 1 [] a < 4 -> 2 [] a < 8 -> 3 [] OTHER -> 4

\* The highest limb of x that is not zero, looking from limb i down; -1 when
\* there is none.
RECURSIVE TopLimb(_, _)
TopLimb(x, i) ==
    IF i < 0 THEN -1
    ELSE IF Limb(x, i) # 0 THEN i
    ELSE TopLimb(x, i - 1)

Bits(x) ==
    LET top == TopLimb(x, KeyNibbles - 1)
    IN  IF top < 0 THEN 0 ELSE 4 * top + BitLen(Limb(x, top))

\* U256::to_big_endian: 32 bytes, most significant first.
ToBigEndian(x) == SubSeq([j \in 1 .. 32 |-> Byte(x, 32 - j)], 1, 32)

(***************************************************************************)
(* src/src/utils.rs                                                        *)
(***************************************************************************)

is_even(num) == (num % 2) = 0

\* ((U512::one() << amt) - 1).try_into().unwrap(): the value 2^amt - 1, which
\* fits a U256 for every amt <= 256 (the only amounts the operations below
\* ask for when their arguments are in range).
create_mask_of_1s(amt) ==
    Limbs([j \in 1 .. KeyNibbles |->
        IF amt >= 4 * j THEN 15
        ELSE IF amt <= 4 * (j - 1) THEN 0
        ELSE Pow2(amt - 4 * (j - 1)) - 1])

(***************************************************************************)
(* Nibbles (src/src/partial_trie.rs): count and packed.                    *)
(***************************************************************************)

Nib(c, p) == [count |-> c, packed |-> p]

\* Nibbles::get_num_nibbles_in_key
get_num_nibbles_in_key(k) == (Bits(k) + 3) \div 4

\* impl From<U256> for Nibbles: the count is always 64.
FromU256(k) == Nib(KeyNibbles, k)

\* U256::from_str on a string of hexadecimal digits, given as the sequence of
\* its characters' values (0..15; a value above 15 stands for a character
\* that is no hexadecimal digit): more than 64 digits or a bad character is
\* an error, otherwise the digits are read most significant first.
U256FromStrOk(s) == Len(s) <= KeyNibbles /\ \A j \in 1 .. Len(s) : s[j] <= 15

U256FromStr(s) ==
    Limbs([j \in 1 .. KeyNibbles |-> IF j <= Len(s) THEN s[Len(s) - j + 1] ELSE 0])

\* impl FromStr for Nibbles: Err on a parse failure (`?`), otherwise the
\* count is inferred from the parsed value.
from_str(s) ==
    IF ~U256FromStrOk(s) THEN [ok |-> FALSE, n |-> Nib(0, U256Zero)]
    ELSE LET packed == U256FromStr(s)
         IN  [ok |-> TRUE, n |-> Nib(get_num_nibbles_in_key(packed), packed)]

\* utils::nibbles(k: u64): k is given by its 16 limbs, as a U256 (U256::from).
nibbles(k) == [FromU256(k) EXCEPT !.count = get_num_nibbles_in_key(k)]

\* Nibbles::get_nibble_common
get_nibble_common(k, idx, count) ==
    LET nib_idx == count - idx - 1
        byte == Byte(k, nib_idx \div 2)
    IN  IF is_even(nib_idx) THEN byte % 16          \* byte & 0b00001111
        ELSE (byte - (byte % 16)) \div 16           \* (byte & 0b11110000) >> 4

\* Nibbles::get_nibble
get_nibble(n, idx) == get_nibble_common(n.packed, idx, n.count)

\* get_nibble_range_common with the mask left at the low end (the shift of
\* the mask forgotten).
get_nibble_range_common_mask_unshifted(k, start, end, count) ==
    LET range_count == end - start
        shift_amt == (count - end) * 4
        mask == create_mask_of_1s(range_count * 4)
        range_packed == Shr(BitAnd(k, mask), shift_amt)
    IN  Nib(range_count, range_packed)

\* Nibbles::get_nibble_range_common, for the range start..end
get_nibble_range_common(k, start, end, count) ==
    LET range_count == end - start
        shift_amt == (count - end) * 4
        mask == Shl(create_mask_of_1s(range_count * 4), shift_amt)
        range_packed == Shr(BitAnd(k, mask), shift_amt)
    IN  Nib(range_count, range_packed)

\* Nibbles::get_nibble_range
get_nibble_range(n, start, end) ==
    get_nibble_range_common(n.packed, start, end, n.count)

\* Nibbles::get_next_nibbles
get_next_nibbles(n, k) == get_nibble_range(n, 0, k)

\* Nibbles::is_empty
is_empty(n) == n.count = 0

\* truncate_n_nibbles_mut with the count lowered and packed left as it was.
truncate_n_nibbles_mut_unmasked(n, k) == Nib(n.count - k, n.packed)

\* Nibbles::truncate_n_nibbles_mut: the value self holds afterwards
truncate_n_nibbles_mut(n, k) ==
    LET mask_shift == (n.count - k) * 4
        truncate_mask == BitNot(Shl(create_mask_of_1s(k * 4), mask_shift))
    IN  Nib(n.count - k, BitAnd(n.packed, truncate_mask))

\* Nibbles::truncate_n_nibbles: a copy of self, truncated
truncate_n_nibbles(n, k) == truncate_n_nibbles_mut(n, k)

\* Nibbles::pop_next_nibble: the nibble returned and self afterwards
pop_next_nibble(n) ==
    [r |-> get_nibble(n, 0), self |-> truncate_n_nibbles_mut(n, 1)]

\* pop_next_nibbles with self left as it was (the truncation forgotten).
pop_next_nibbles_untruncated(n, k) ==
    [r |-> get_nibble_range(n, 0, k), self |-> n]

\* Nibbles::pop_next_nibbles: the Nibbles returned and self afterwards
pop_next_nibbles(n, k) ==
    [r |-> get_nibble_range(n, 0, k), self |-> truncate_n_nibbles_mut(n, k)]

\* Nibbles::split_at_idx: <<pre, post>>
split_at_idx(n, idx) ==
    LET post_count == n.count - idx
        post_mask == create_mask_of_1s(post_count * 4)
        post == Nib(post_count, BitAnd(n.packed, post_mask))
        pre_mask == BitNot(post_mask)
        pre_shift_amt == post_count * 4
        pre == Nib(idx, Shr(BitAnd(n.packed, pre_mask), pre_shift_amt))
    IN  <<pre, post>>

\* Nibbles::split_at_idx_prefix
split_at_idx_prefix(n, idx) ==
    LET shift_amt == (n.count - idx) * 4
        pre_mask == Shl(create_mask_of_1s(idx * 4), shift_amt)
    IN  Nib(idx, Shr(BitAnd(n.packed, pre_mask), shift_amt))

\* split_at_idx_postfix with packed left unmasked.
split_at_idx_postfix_unmasked(n, idx) == Nib(n.count - idx, n.packed)

\* Nibbles::split_at_idx_postfix
split_at_idx_postfix(n, idx) ==
    LET postfix_count == n.count - idx
        mask == create_mask_of_1s(postfix_count * 4)
    IN  Nib(postfix_count, BitAnd(n.packed, mask))

\* merge with the prefix shifted by post.count bits, not post.count nibbles.
merge_shift_in_bits(n, post) ==
    Nib(n.count + post.count, BitOr(Shl(n.packed, post.count), post.packed))

\* Nibbles::merge: self is the prefix
merge(n, post) ==
    Nib(n.count + post.count, BitOr(Shl(n.packed, post.count * 4), post.packed))

\* nibbles_are_identical_up_to_smallest_count stopping one nibble early.
nibbles_are_identical_off_by_one(n, o) ==
    LET smaller_count == IF n.count <= o.count THEN n.count ELSE o.count
    IN  \A i \in 0 .. (smaller_count - 2) : get_nibble(n, i) = get_nibble(o, i)

\* Nibbles::nibbles_are_identical_up_to_smallest_count
nibbles_are_identical_up_to_smallest_count(n, o) ==
    LET smaller_count == IF n.count <= o.count THEN n.count ELSE o.count
    IN  \A i \in 0 .. (smaller_count - 1) : get_nibble(n, i) = get_nibble(o, i)

\* Nibbles::min_bytes
min_bytes(n) == (n.count + 1) \div 2

\* Nibbles::bytes
bytes(n) == SubSeq(ToBigEndian(n.packed), 32 - min_bytes(n) + 1, 32)

\* The loop of find_nibble_idx_that_differs_between_nibbles, from index i on:
\* `for i in 0..n1.count { if n1.packed & curr_mask != n2.packed & curr_mask
\* { return i; } curr_mask >>= 4; } n1.count`
RECURSIVE find_loop(_, _, _, _)
find_loop(n1, n2, i, curr_mask) ==
    IF i >= n1.count THEN n1.count
    ELSE IF BitAnd(n1.packed, curr_mask) # BitAnd(n2.packed, curr_mask) THEN i
    ELSE find_loop(n1, n2, i + 1, Shr(curr_mask, 4))

\* U256::from(0xf)
U256From0xf == Limbs([j \in 1 .. KeyNibbles |-> IF j = 1 THEN 15 ELSE 0])

\* find_nibble_idx_that_differs_between_nibbles without its assert_eq!.
find_nibble_idx_unasserted(n1, n2, overflow_checks) ==
    IF n1.count = 0 /\ overflow_checks THEN [panic |-> TRUE, idx |-> 0]
    ELSE LET curr_mask == IF n1.count = 0 THEN U256Zero
                          ELSE Shl(U256From0xf, (n1.count - 1) * 4)
         IN  [panic |-> FALSE, idx |-> find_loop(n1, n2, 0, curr_mask)]

\* Nibbles::find_nibble_idx_that_differs_between_nibbles.  The assert_eq! on
\* the counts panics in every build.  `(n1.count - 1) * 4` is usize
\* arithmetic: with n1.count = 0 the subtraction overflows, which panics in a
\* build with overflow checks (overflow_checks, the default of a debug build
\* and of `cargo test`) and wraps in one without; the wrapped amount,
\* (2^64 - 1) * 4 mod 2^64 = 2^64 - 4, is above 255, so the shift leaves zero.
find_nibble_idx_that_differs_between_nibbles(n1, n2, overflow_checks) ==
    IF n1.count # n2.count THEN [panic |-> TRUE, idx |-> 0]
    ELSE IF n1.count = 0 /\ overflow_checks THEN [panic |-> TRUE, idx |-> 0]
    ELSE LET curr_mask == IF n1.count = 0 THEN U256Zero
                          ELSE Shl(U256From0xf, (n1.count - 1) * 4)
         IN  [panic |-> FALSE, idx |-> find_loop(n1, n2, 0, curr_mask)]

\* u8 | u8
OrByte(a, b) ==
    LET ah == a \div 16  al == a % 16
        bh == b \div 16  bl == b % 16
    IN  16 * (ah + bh - AndNib(ah, bh)) + (al + bl - AndNib(al, bl))

\* to_hex_prefix_encoding with the two flag bits exchanged.
to_hex_prefix_encoding_flags_swapped(n, is_leaf) ==
    LET num_bytes == (n.count + 2) \div 2
        flag_byte_idx == 33 - num_bytes
        odd_bit == IF is_even(n.count) THEN 0 ELSE 1
        term_bit == IF is_leaf THEN 1 ELSE 0
        flags == ((term_bit + 2 * odd_bit) * 16) % 256
        buf == <<0>> \o ToBigEndian(n.packed)
        out == [buf EXCEPT ![flag_byte_idx + 1] = OrByte(@, flags)]
    IN  SubSeq(out, flag_byte_idx + 1, 33)

\* Nibbles::to_hex_prefix_encoding.  The 33-byte buffer `bytes` is the
\* sequence buf (Rust index i is buf[i + 1]).
to_hex_prefix_encoding(n, is_leaf) ==
    LET num_nibbles == n.count + 1
        num_bytes == (num_nibbles + 1) \div 2
        flag_byte_idx == 33 - num_bytes
        odd_bit == IF is_even(n.count) THEN 0 ELSE 1
        term_bit == IF is_leaf THEN 1 ELSE 0
        flags == ((odd_bit + 2 * term_bit) * 16) % 256
        buf == <<0>> \o ToBigEndian(n.packed)
        out == [buf EXCEPT ![flag_byte_idx + 1] = OrByte(@, flags)]
    IN  SubSeq(out, flag_byte_idx + 1, 33)

(***************************************************************************)
(* PartialTrie (src/src/partial_trie.rs).  A node is a record: tag, and    *)
(* the fields of its variant (h: the digest of a Hash; children: the 16    *)
(* children of a Branch or the one child of an Extension; nibbles; value), *)
(* the fields a variant does not have being empty (<<>>).                  *)
(***************************************************************************)

EmptyNibbles == Nib(0, U256Zero)

\* PartialTrie::Empty, and impl Default for PartialTrie
TrieEmpty ==
    [tag |-> "Empty", h |-> 0, children |-> <<>>, nibbles |-> <<>>,
     value |-> <<>>]

\* PartialTrie::Hash(h)
TrieHash(h) == [TrieEmpty EXCEPT !.tag = "Hash", !.h = h]

\* PartialTrie::Branch { children, value }: children is a sequence of 16
TrieBranch(children, value) ==
    [TrieEmpty EXCEPT !.tag = "Branch", !.children = children, !.value = value]

\* PartialTrie::Extension { nibbles, child }
TrieExtension(nibs, child) ==
    [TrieEmpty EXCEPT !.tag = "Extension", !.nibbles = nibs,
                      !.children = <<child>>]

\* PartialTrie::Leaf { nibbles, value }
TrieLeaf(nibs, value) ==
    [TrieEmpty EXCEPT !.tag = "Leaf", !.nibbles = nibs, !.value = value]

\* impl PartialEq for PartialTrie: eq.  `c1[i] != c2[i]` on Box<PartialTrie>
\* is PartialEq::ne, the negation of this eq on the children.
RECURSIVE TrieEq(_, _)
TrieEq(t1, t2) ==
    CASE t1.tag = "Empty" /\ t2.tag = "Empty" -> TRUE
      [] t1.tag = "Hash" /\ t2.tag = "Hash" -> t1.h = t2.h
      [] t1.tag = "Branch" /\ t2.tag = "Branch" ->
            t1.value = t2.value
            /\ \A i \in 1 .. 16 : ~TrieEq(t1.children[i], t2.children[i])
      [] t1.tag = "Extension" /\ t2.tag = "Extension" ->
            t1.nibbles = t2.nibbles /\ TrieEq(t1.children[1], t2.children[1])
      [] t1.tag = "Leaf" /\ t2.tag = "Leaf" ->
            t1.nibbles = t2.nibbles /\ t1.value = t2.value
      [] OTHER -> FALSE

\* The height of a node: 0 for Empty, Hash and Leaf.
RECURSIVE TrieDepth(_)
TrieDepth(t) ==
    IF t.children = <<>> THEN 0
    ELSE LET depths == {TrieDepth(t.children[i]) : i \in 1 .. Len(t.children)}
         IN  1 + CHOOSE d \in depths : \A e \in depths : e <= d

(***************************************************************************)
(* State.                                                                  *)
(*   self, other  the two Nibbles a caller holds: the receiver of the next *)
(*                call and its `&Nibbles` argument                         *)
(*   call         the last call: its name, its arguments, and the receiver *)
(*                and argument as they were when it was made               *)
(*   ret          what the last call returned                              *)
(*   nops         the number of calls made                                 *)
(*   ta, tb       the two PartialTrie values a caller holds                *)
(*   teq          the result of the last `ta == tb`: "equal", "unequal",   *)
(*                or "none" when the nodes changed since                   *)
(***************************************************************************)
VARIABLES self, other, call, ret, nops, ta, tb, teq

vars == <<self, other, call, ret, nops, ta, tb, teq>>

nibVars == <<self, other, call, ret, nops>>

trieVars == <<ta, tb, teq>>

NoCall ==
    [op |-> "init", a1 |-> 0, a2 |-> 0, leaf |-> FALSE,
     recv |-> EmptyNibbles, operand |-> EmptyNibbles]

NoRet ==
    [status |-> "none", n |-> EmptyNibbles, n2 |-> EmptyNibbles, v |-> 0,
     b |-> FALSE, bytes |-> <<>>]

Called(op, a1, a2) ==
    [NoCall EXCEPT !.op = op, !.a1 = a1, !.a2 = a2, !.recv = self,
                   !.operand = other]

RetNibbles(n) == [NoRet EXCEPT !.status = "ok", !.n = n]

RetValue(v) == [NoRet EXCEPT !.status = "ok", !.v = v]

(***************************************************************************)
(* The calls on Nibbles.  A call on `&self` that returns a Nibbles leaves  *)
(* its result in ret; the caller then goes on with the result in place of  *)
(* the receiver (split_at_idx: with pre and post in place of self and      *)
(* other), so that calls follow one another on the values produced.  A     *)
(* call on `&mut self` changes self itself.                                *)
(***************************************************************************)

Step(c, newSelf, newOther, newRet) ==
    /\ call' = c
    /\ ret' = newRet
    /\ self' = newSelf
    /\ other' = newOther
    /\ nops' = nops + 1
    /\ UNCHANGED trieVars

GetNibble(idx) ==
    Step(Called("get_nibble", idx, 0), self, other, RetValue(get_nibble(self, idx)))

GetNibbleRange(start, end) ==
    LET r == get_nibble_range(self, start, end)
    IN  Step(Called("get_nibble_range", start, end), r, other, RetNibbles(r))

GetNextNibbles(n) ==
    LET r == get_next_nibbles(self, n)
    IN  Step(Called("get_next_nibbles", n, 0), r, other, RetNibbles(r))

PopNextNibble ==
    LET p == pop_next_nibble(self)
    IN  Step(Called("pop_next_nibble", 0, 0), p.self, other, RetValue(p.r))

PopNextNibbles(n) ==
    LET p == pop_next_nibbles(self, n)
    IN  Step(Called("pop_next_nibbles", n, 0), p.self, p.r, RetNibbles(p.r))

TruncateNNibbles(n) ==
    LET r == truncate_n_nibbles(self, n)
    IN  Step(Called("truncate_n_nibbles", n, 0), r, other, RetNibbles(r))

TruncateNNibblesMut(n) ==
    Step(Called("truncate_n_nibbles_mut", n, 0), truncate_n_nibbles_mut(self, n),
         other, [NoRet EXCEPT !.status = "ok"])

SplitAtIdx(idx) ==
    LET r == split_at_idx(self, idx)
    IN  Step(Called("split_at_idx", idx, 0), r[1], r[2],
             [NoRet EXCEPT !.status = "ok", !.n = r[1], !.n2 = r[2]])

SplitAtIdxPrefix(idx) ==
    LET r == split_at_idx_prefix(self, idx)
    IN  Step(Called("split_at_idx_prefix", idx, 0), r, other, RetNibbles(r))

SplitAtIdxPostfix(idx) ==
    LET r == split_at_idx_postfix(self, idx)
    IN  Step(Called("split_at_idx_postfix", idx, 0), r, other, RetNibbles(r))

Merge ==
    LET r == merge(self, other)
    IN  Step(Called("merge", 0, 0), r, other, RetNibbles(r))

NibblesAreIdentical ==
    Step(Called("nibbles_are_identical_up_to_smallest_count", 0, 0), self, other,
         [NoRet EXCEPT !.status = "ok",
                       !.b = nibbles_are_identical_up_to_smallest_count(self, other)])

\* overflow_checks: whether the build checks integer overflow.
FindNibbleIdx(overflow_checks) ==
    LET r == find_nibble_idx_that_differs_between_nibbles(self, other,
                                                          overflow_checks)
    IN  Step(Called("find_nibble_idx_that_differs_between_nibbles", 0, 0), self, other,
             IF r.panic THEN [NoRet EXCEPT !.status = "panic"]
             ELSE RetValue(r.idx))

ToHexPrefixEncoding(is_leaf) ==
    Step([Called("to_hex_prefix_encoding", 0, 0) EXCEPT !.leaf = is_leaf],
         self, other,
         [NoRet EXCEPT !.status = "ok",
                       !.bytes = to_hex_prefix_encoding(self, is_leaf)])

(***************************************************************************)
(* The steps on PartialTrie: building a node of each variant over the      *)
(* node held in ta, cloning it, and comparing ta with tb.                  *)
(***************************************************************************)

\* The greatest height of a node built.
MaxDepth == 2

TrieDigests == {0, 1}

TrieValues == {<<>>, <<1>>}

TrieNibbles == {Nib(1, U256FromStr(<<1>>)), Nib(2, U256FromStr(<<1, 2>>))}

\* The leaves built: every pair but one, to keep the state space in hand.
TrieLeaves ==
    {nv \in TrieNibbles \X TrieValues :
        ~(nv[1].count = 2 /\ nv[2] = <<1>>)}

TrieStep(newTa, newTb, newEq) ==
    /\ ta' = newTa
    /\ tb' = newTb
    /\ teq' = newEq
    /\ UNCHANGED nibVars

\* PartialTrie::default()
TrieDefault == TrieStep(TrieEmpty, tb, "none")

NewHash(h) == TrieStep(TrieHash(h), tb, "none")

NewLeaf(nibs, value) == TrieStep(TrieLeaf(nibs, value), tb, "none")

\* An Extension over the node held
NewExtension(nibs) ==
    /\ TrieDepth(ta) < MaxDepth
    /\ TrieStep(TrieExtension(nibs, ta), tb, "none")

\* A Branch with the node held as child `slot`, its other children Empty
NewBranchOne(slot, value) ==
    /\ TrieDepth(ta) < MaxDepth
    /\ TrieStep(TrieBranch([i \in 1 .. 16 |-> IF i = slot + 1 THEN ta ELSE TrieEmpty],
                           value), tb, "none")

\* A Branch whose 16 children are all clones of the node held
NewBranchAll(value) ==
    /\ TrieDepth(ta) < MaxDepth
    /\ TrieStep(TrieBranch([i \in 1 .. 16 |-> ta], value), tb, "none")

\* #[derive(Clone)]: tb = ta.clone()
TrieClone == TrieStep(ta, ta, "none")

\* ta == tb
TrieCompare == TrieStep(ta, tb, IF TrieEq(ta, tb) THEN "equal" ELSE "unequal")

(***************************************************************************)
(* Inputs.  A hexadecimal string is the sequence of its digits.            *)
(***************************************************************************)

\* "123456789abcdef123..." to the length len: no digit is zero and no two
\* neighbours are equal.
Ramp(len) == [j \in 1 .. len |-> ((j - 1) % 15) + 1]

\* "fff..."
AllF(len) == [j \in 1 .. len |-> 15]

\* Ramp(len) with the digit at position p (1 = first) replaced by another
\* digit that is not zero.
Vary(len, p) == [Ramp(len) EXCEPT ![p] = (@ % 15) + 1]

Parsed(s) == from_str(s).n

Lens == 0 .. KeyNibbles

\* The Nibbles the one-call specification starts from: from_str of every
\* length, From<U256> of short and long keys, nibbles(k) of u64 keys.
FnInputs ==
    {Parsed(Ramp(len)) : len \in Lens}
      \cup {Parsed(AllF(len)) : len \in Lens}
      \cup {FromU256(U256FromStr(Ramp(len))) : len \in {0, 2, 33}}
      \cup {nibbles(U256FromStr(s)) : s \in {<<1, 2, 3, 4>>, AllF(16)}}

\* The Nibbles get_nibble_range is called on, with every range: the short
\* ones, those about half a key, the longest, and full keys.
RangeInputs ==
    {Parsed(Ramp(len)) : len \in (0 .. 16) \cup {31, 32, 33, 63, 64}}
      \cup {Parsed(AllF(len)) : len \in {63, 64}}
      \cup {FromU256(U256FromStr(Ramp(2))), nibbles(U256FromStr(<<1, 2, 3, 4>>))}

\* The positions at which a sequence of length len is varied: its two ends,
\* one step from each, and its middle.
VaryAt(len) == {1, 2, len \div 2, len - 1, len} \cap (1 .. len)

\* The pairs the two-operand calls start from: sequences of any two lengths
\* of which one is a prefix of the other (equal ones among them), sequences
\* of one length that differ at one position, sequences of different lengths
\* that differ on the shorter one, and full keys.
CmpPair(a, b) ==
    \/ \E l1 \in Lens, l2 \in Lens :
         a = Parsed(Ramp(l1)) /\ b = Parsed(Ramp(l2))
    \/ \E len \in Lens : \E p \in VaryAt(len) : \E swap \in BOOLEAN :
         LET x == Parsed(Ramp(len))
             y == Parsed(Vary(len, p))
         IN  a = (IF swap THEN y ELSE x) /\ b = (IF swap THEN x ELSE y)
    \/ \E l1 \in Lens \ {0}, l2 \in {0, 1, 2, 32, 63, 64} :
         \E p \in {1, l1} : \E swap \in BOOLEAN :
           LET x == Parsed(Vary(l1, p))
               y == Parsed(Ramp(l2))
           IN  a = (IF swap THEN y ELSE x) /\ b = (IF swap THEN x ELSE y)
    \/ \E k \in {Ramp(3), Vary(3, 2), Ramp(64), <<>>} :
         a = FromU256(U256FromStr(Ramp(3))) /\ b = FromU256(U256FromStr(k))

\* The Nibbles the sequences of calls start from, one of each constructor:
\* From<U256> of a full key and of a short one, from_str of the empty string,
\* of a string with leading zeros and of 64 digits, nibbles(0x1234).
SeqInputs ==
    {FromU256(U256FromStr(Ramp(64))), FromU256(U256FromStr(<<1, 2>>)),
     Parsed(<<>>), Parsed(<<0, 0, 10, 11, 12>>), Parsed(AllF(64)),
     nibbles(U256FromStr(<<1, 2, 3, 4>>))}

SeqOthers == {Parsed(<<>>), nibbles(U256FromStr(<<1, 2, 3, 4>>))}

\* The greatest number of calls in a sequence.
MaxOps == 2

\* The arguments tried in a sequence of calls on a receiver of count c:
\* both ends, one step from each, and the middle.
EdgeIdx(c) == {0, 1, c \div 2, c - 1, c} \cap (0 .. c)

(***************************************************************************)
(* Specifications.                                                         *)
(***************************************************************************)

NoTrie == ta = TrieEmpty /\ tb = TrieEmpty /\ teq = "none"

NoNibbles ==
    /\ self = EmptyNibbles
    /\ other = EmptyNibbles
    /\ call = NoCall
    /\ ret = NoRet
    /\ nops = 0

\* Sequences of the slicing calls and merge, arguments in range.
Init ==
    /\ self \in SeqInputs
    /\ other \in SeqOthers
    /\ call = NoCall
    /\ ret = NoRet
    /\ nops = 0
    /\ NoTrie

Next ==
    /\ nops < MaxOps
    /\ \/ \E start \in EdgeIdx(self.count) : \E end \in EdgeIdx(self.count) :
            start <= end /\ GetNibbleRange(start, end)
       \/ \E n \in EdgeIdx(self.count) : GetNextNibbles(n)
       \/ self.count >= 1 /\ PopNextNibble
       \/ \E n \in EdgeIdx(self.count) : PopNextNibbles(n)
       \/ \E n \in EdgeIdx(self.count) : TruncateNNibbles(n)
       \/ \E n \in EdgeIdx(self.count) : TruncateNNibblesMut(n)
       \/ \E idx \in EdgeIdx(self.count) : SplitAtIdx(idx)
       \/ \E idx \in EdgeIdx(self.count) : SplitAtIdxPrefix(idx)
       \/ \E idx \in EdgeIdx(self.count) : SplitAtIdxPostfix(idx)
       \/ self.count + other.count <= KeyNibbles /\ Merge

Spec == Init /\ [][Next]_vars

\* One call on one receiver, with every argument in range.
InitFn ==
    /\ self \in FnInputs
    /\ other = EmptyNibbles
    /\ call = NoCall
    /\ ret = NoRet
    /\ nops = 0
    /\ NoTrie

NextFn ==
    /\ nops = 0
    /\ \/ \E idx \in 0 .. (self.count - 1) : GetNibble(idx)
       \/ \E n \in 0 .. self.count : GetNextNibbles(n)
       \/ self.count >= 1 /\ PopNextNibble
       \/ \E n \in 0 .. self.count : PopNextNibbles(n)
       \/ \E n \in 0 .. self.count : TruncateNNibbles(n)
       \/ \E n \in 0 .. self.count : TruncateNNibblesMut(n)
       \/ \E idx \in 0 .. self.count : SplitAtIdx(idx)
       \/ \E idx \in 0 .. self.count : SplitAtIdxPrefix(idx)
       \/ \E idx \in 0 .. self.count : SplitAtIdxPostfix(idx)
       \/ \E is_leaf \in BOOLEAN : ToHexPrefixEncoding(is_leaf)

SpecFn == InitFn /\ [][NextFn]_vars

\* One call of get_nibble_range, with every range.
InitRange ==
    /\ self \in RangeInputs
    /\ other = EmptyNibbles
    /\ call = NoCall
    /\ ret = NoRet
    /\ nops = 0
    /\ NoTrie

NextRange ==
    /\ nops = 0
    /\ \E end \in 0 .. self.count : \E start \in 0 .. end :
         GetNibbleRange(start, end)

SpecRange == InitRange /\ [][NextRange]_vars

\* One call on a receiver and a second Nibbles.
InitCmp ==
    /\ CmpPair(self, other)
    /\ call = NoCall
    /\ ret = NoRet
    /\ nops = 0
    /\ NoTrie

NextCmp ==
    /\ nops = 0
    /\ \/ NibblesAreIdentical
       \/ \E overflow_checks \in BOOLEAN : FindNibbleIdx(overflow_checks)
       \/ self.count + other.count <= KeyNibbles /\ Merge

SpecCmp == InitCmp /\ [][NextCmp]_vars

\* Building, cloning and comparing PartialTrie nodes.
InitTrie == NoNibbles /\ NoTrie

NextTrie ==
    \/ TrieDefault
    \/ \E h \in TrieDigests : NewHash(h)
    \/ \E nv \in TrieLeaves : NewLeaf(nv[1], nv[2])
    \/ \E nibs \in {n \in TrieNibbles : n.count = 1} : NewExtension(nibs)
    \/ \E slot \in {15} : NewBranchOne(slot, <<>>)
    \/ \E value \in TrieValues : NewBranchAll(value)
    \/ TrieClone
    \/ TrieCompare

SpecTrie == InitTrie /\ [][NextTrie]_vars

(***************************************************************************)
(* Properties.                                                             *)
(***************************************************************************)

\* The packing invariant of a Nibbles: the count is in 0..64 and no bit of
\* packed is set at or above bit 4 * count.
Packed(n) ==
    /\ n.count \in 0 .. KeyNibbles
    /\ \A i \in LimbIdx : i >= n.count => Limb(n.packed, i) = 0

\* The nibble at logical position idx of n, counted from the most
\* significant nibble of the sequence.
NibbleAt(n, idx) == Limb(n.packed, n.count - 1 - idx)

\* C1: from a Nibbles built by a constructor, after any sequence of
\* get_nibble_range, get_next_nibbles, pop_next_nibble, pop_next_nibbles,
\* truncate_n_nibbles(_mut), split_at_idx(_prefix, _postfix) and merge with
\* arguments in range, every Nibbles produced or left in self satisfies the
\* packing invariant.
C1_PackingInvariant ==
    /\ Packed(self)
    /\ Packed(other)
    /\ Packed(ret.n)
    /\ Packed(ret.n2)

\* C1's case: a full key was split inside and its two parts merged again.
C1_Witness ==
    /\ nops = 2
    /\ call.op = "merge"
    /\ call.recv.count \in 1 .. (KeyNibbles - 1)
    /\ self.count = KeyNibbles
    /\ Limb(self.packed, KeyNibbles - 1) # 0

\* C2: for every n and idx <= n.count, the two parts split_at_idx(idx)
\* returns merge back to n, count and packed.
C2_SplitMergeRoundTrip ==
    call.op = "split_at_idx" => merge(ret.n, ret.n2) = call.recv

\* C2's case: a sequence of 64 nibbles split into two parts that are not empty.
C2_Witness ==
    /\ call.op = "split_at_idx"
    /\ call.recv.count = KeyNibbles
    /\ call.a1 = 31
    /\ ret.n.packed # U256Zero
    /\ ret.n2.packed # U256Zero

\* C3: r = n.pop_next_nibbles(k) with k <= n.count has count k, leaves self
\* with count n.count - k, and r.merge(self) is the original n.
C3_PopConsistency ==
    call.op = "pop_next_nibbles" =>
        /\ ret.n.count = call.a1
        /\ self.count = call.recv.count - call.a1
        /\ merge(ret.n, self) = call.recv

\* C3's case: some but not all nibbles of a long sequence were popped.
C3_Witness ==
    /\ call.op = "pop_next_nibbles"
    /\ call.recv.count = 63
    /\ call.a1 = 20
    /\ ret.n.packed # U256Zero
    /\ self.packed # U256Zero

\* C4: to_hex_prefix_encoding(is_leaf) returns ceil((count + 1) / 2) bytes;
\* the high nibble of the first byte is (1 if count is odd) + (2 if is_leaf);
\* if count is odd the low nibble of the first byte is nibble 0 and the other
\* bytes hold nibbles 1..count-1, two per byte; if count is even the low
\* nibble of the first byte is 0 and the other bytes hold nibbles
\* 0..count-1, two per byte.
C4_HexPrefixLayout ==
    call.op = "to_hex_prefix_encoding" =>
        LET n == call.recv
            c == n.count
            b == ret.bytes
            odd == c % 2 = 1
        IN  /\ Len(b) = (c + 2) \div 2
            /\ b[1] \div 16 = (IF odd THEN 1 ELSE 0) + (IF call.leaf THEN 2 ELSE 0)
            /\ IF odd
                 THEN /\ b[1] % 16 = get_nibble(n, 0)
                      /\ \A k \in 1 .. ((c - 1) \div 2) :
                           b[k + 1] = 16 * get_nibble(n, 2 * k - 1)
                                        + get_nibble(n, 2 * k)
                 ELSE /\ b[1] % 16 = 0
                      /\ \A k \in 1 .. (c \div 2) :
                           b[k + 1] = 16 * get_nibble(n, 2 * k - 2)
                                        + get_nibble(n, 2 * k - 1)

\* C4's case: a leaf path of odd count, whose first nibble shares the flag byte.
C4_Witness ==
    /\ call.op = "to_hex_prefix_encoding"
    /\ call.leaf
    /\ call.recv.count = 63
    /\ Len(ret.bytes) = 32
    /\ ret.bytes[1] = 49

\* Structural equality of two PartialTrie nodes: the same variant and equal
\* contents, the children compared in the same way.
RECURSIVE TrieSame(_, _)
TrieSame(t1, t2) ==
    /\ t1.tag = t2.tag
    /\ t1.h = t2.h
    /\ t1.value = t2.value
    /\ t1.tag \in {"Leaf", "Extension"} => t1.nibbles = t2.nibbles
    /\ Len(t1.children) = Len(t2.children)
    /\ \A i \in 1 .. Len(t1.children) : TrieSame(t1.children[i], t2.children[i])

\* C5: a == b on PartialTrie holds exactly when a and b have the same variant
\* and equal contents, recursively; in particular every node, a Branch
\* included, equals itself.
C5_StructuralEquality ==
    teq # "none" => (teq = "equal" <=> TrieSame(ta, tb))

\* The least index below a.count at which a and b differ; a.count when there
\* is none.
FirstDiff(a, b) ==
    LET diffs == {i \in 0 .. (a.count - 1) : get_nibble(a, i) # get_nibble(b, i)}
    IN  IF diffs = {} THEN a.count
        ELSE CHOOSE i \in diffs : \A j \in diffs : i <= j

\* C6: for a and b of equal count (0 included),
\* find_nibble_idx_that_differs_between_nibbles(a, b) returns the least index
\* at which they differ and the count when there is none; so it returns
\* the count exactly when a = b, and the same with a and b swapped.
C6_Differencing ==
    (call.op = "find_nibble_idx_that_differs_between_nibbles"
       /\ call.recv.count = call.operand.count) =>
        /\ ret.status = "ok"
        /\ ret.v = FirstDiff(call.recv, call.operand)
        /\ ret.v = FirstDiff(call.operand, call.recv)
        /\ (ret.v = call.recv.count <=> call.recv = call.operand)

\* C6 for sequences that are not empty: what the code does keep.
C6_DifferencingNonEmpty ==
    (call.op = "find_nibble_idx_that_differs_between_nibbles"
       /\ call.recv.count = call.operand.count
       /\ call.recv.count >= 1) =>
        /\ ret.status = "ok"
        /\ ret.v = FirstDiff(call.recv, call.operand)
        /\ ret.v = FirstDiff(call.operand, call.recv)
        /\ (ret.v = call.recv.count <=> call.recv = call.operand)

\* C7: for every idx <= n.count, split_at_idx(idx) is the pair of
\* get_nibble_range(0..idx) and get_nibble_range(idx..count),
\* split_at_idx_prefix(idx) is the first of the two, and
\* split_at_idx_postfix(idx) and truncate_n_nibbles(idx) are the second.
C7_SlicingAgreesWithRange ==
    LET n == call.recv
        idx == call.a1
        pre == get_nibble_range(n, 0, idx)
        post == get_nibble_range(n, idx, n.count)
    IN  /\ call.op = "split_at_idx" => ret.n = pre /\ ret.n2 = post
        /\ call.op = "split_at_idx_prefix" => ret.n = pre
        /\ call.op = "split_at_idx_postfix" => ret.n = post
        /\ call.op = "truncate_n_nibbles" => ret.n = post

\* C7's case: the postfix of a full key from inside it.
C7_Witness ==
    /\ call.op = "split_at_idx_postfix"
    /\ call.recv.count = KeyNibbles
    /\ call.a1 = 40
    /\ ret.n.count = 24
    /\ ret.n.packed # U256Zero

\* C8: r = n.get_nibble_range(start..end), with start <= end <= n.count, has
\* count end - start and r.get_nibble(i) = n.get_nibble(start + i) for every
\* i below end - start, get_nibble(idx) being the nibble at logical position
\* idx from the most significant nibble.
C8_RangeIsSubSequence ==
    call.op = "get_nibble_range" =>
        LET n == call.recv
            r == ret.n
        IN  /\ r.count = call.a2 - call.a1
            /\ \A i \in 0 .. (call.a2 - call.a1 - 1) :
                 /\ get_nibble(r, i) = get_nibble(n, call.a1 + i)
                 /\ get_nibble(r, i) = NibbleAt(r, i)
            /\ \A i \in 0 .. (n.count - 1) : get_nibble(n, i) = NibbleAt(n, i)

\* C8's case: a range strictly inside a sequence of 64 nibbles.
C8_Witness ==
    /\ call.op = "get_nibble_range"
    /\ call.recv.count = KeyNibbles
    /\ call.a1 = 5
    /\ call.a2 = 60
    /\ get_nibble(ret.n, 0) = 6

\* C9: a.nibbles_are_identical_up_to_smallest_count(b) is true exactly when
\* a and b hold the same nibble at every position below the smaller of their
\* counts; it is true when either is empty, and the same with a and b swapped.
C9_PrefixComparison ==
    call.op = "nibbles_are_identical_up_to_smallest_count" =>
        LET a == call.recv
            b == call.operand
            m == IF a.count <= b.count THEN a.count ELSE b.count
        IN  /\ ret.b <=> \A i \in 0 .. (m - 1) : NibbleAt(a, i) = NibbleAt(b, i)
            /\ (a.count = 0 \/ b.count = 0) => ret.b
            /\ ret.b <=> nibbles_are_identical_up_to_smallest_count(b, a)

\* C9's case: two sequences of different counts that differ on the shorter.
C9_Witness ==
    /\ call.op = "nibbles_are_identical_up_to_smallest_count"
    /\ call.recv.count = 40
    /\ call.operand.count = 32
    /\ ~ret.b

\* C10: with a.count # b.count,
\* find_nibble_idx_that_differs_between_nibbles(a, b) aborts on its assertion
\* and returns no index.
C10_UnequalCountsAbort ==
    (call.op = "find_nibble_idx_that_differs_between_nibbles"
       /\ call.recv.count # call.operand.count) =>
        ret.status = "panic"

\* C10's case: the call was made on counts 40 and 32, and it aborted.
C10_Witness ==
    /\ call.op = "find_nibble_idx_that_differs_between_nibbles"
    /\ call.recv.count = 40
    /\ call.operand.count = 32
    /\ ret.status = "panic"

=============================================================================
